---------------------------- MODULE Spec2Model ----------------------------
(***************************************************************************)
(* Model of the crossword CSP solver of generate.py (CrosswordCreator):    *)
(* node consistency, arc consistency (AC-3) and backtracking search.       *)
(*                                                                         *)
(* Spec is a run of solve(); ApiSpec, Ac3Spec and QuerySpec call the       *)
(* methods of a fresh object one at a time.                                *)
(*                                                                         *)
(* Words are tuples of letters; Python's 0-based index w[k] is w[k + 1].   *)
(* Python's None is the empty tuple; a returned dict d is the tuple <<d>>. *)
(***************************************************************************)
EXTENDS Integers, Sequences, FiniteSets, TLC

\* ------------------------------------------------------------------ bounds

\* Largest number of words in a word list.
MaxWords == 3

\* Letters words are made of.
Alphabet == {"a", "b"}

\* Lengths of the words a word list may hold.
WordLengths == {1, 2, 3}

AllWords == UNION {[1..n -> Alphabet] : n \in WordLengths}

WordLists == {W \in SUBSET AllWords : Cardinality(W) <= MaxWords}

\* ------------------------------------------------- the puzzle (crossword.py)

ACROSS == "across"
DOWN == "down"

Variable(i, j, direction, length) ==
    [i |-> i, j |-> j, direction |-> direction, length |-> length]

\* The cells of a slot, in word order.
cells(v) ==
    [k \in 1..v.length |->
        <<v.i + (IF v.direction = DOWN THEN k - 1 ELSE 0),
          v.j + (IF v.direction = ACROSS THEN k - 1 ELSE 0)>>]

\* The slots of a few small grids ("#" fillable, "." blocked):
\*   no slot | ## | ### | ## | ## | ### | #.#
\*           |    | .#. | .. | #. | #.# | ###
\*           |    |     | ## |    |     | #.#
Structures ==
    { {},
      {Variable(0, 0, ACROSS, 2)},
      {Variable(0, 0, ACROSS, 3), Variable(0, 1, DOWN, 2)},
      {Variable(0, 0, ACROSS, 2), Variable(2, 0, ACROSS, 2)},
      {Variable(0, 0, ACROSS, 2), Variable(0, 0, DOWN, 2)},
      {Variable(0, 0, ACROSS, 3), Variable(0, 0, DOWN, 2), Variable(0, 2, DOWN, 2)},
      {Variable(1, 0, ACROSS, 3), Variable(0, 0, DOWN, 3), Variable(0, 2, DOWN, 3)} }

None == <<>>

\* 0-based position of a cell in a slot.
index(v, cell) == (CHOOSE k \in 1..v.length : cells(v)[k] = cell) - 1

\* Every slot of every grid.
Slots == UNION Structures

\* The overlap map, computed once from the geometry: for two slots, None, or
\* the pair of 0-based offsets of the cell they share.
overlap_map ==
    [p \in Slots \X Slots |->
        LET v1 == p[1]
            v2 == p[2]
            intersection == {cells(v1)[k] : k \in 1..v1.length}
                            \cap {cells(v2)[k] : k \in 1..v2.length}
        IN  IF intersection = {} THEN None
            ELSE LET cell == CHOOSE c \in intersection : TRUE
                 IN  <<index(v1, cell), index(v2, cell)>>]

\* self.crossword.overlaps[v1, v2]
overlaps(v1, v2) == overlap_map[<<v1, v2>>]

VARIABLES
    crossword,   \* [variables, words]: the puzzle, fixed at construction
    domains,     \* self.domains: variable -> set of words
    pc,          \* position in solve()
    arcs,        \* the work queue of ac3
    ac3_ret,     \* what ac3 returned: "pending", "True" or "False"
    stack,       \* frames of backtrack: [var, value, untried]
    assignment,  \* the dict handed through backtrack
    retval,      \* value a backtrack call just returned
    result,      \* what solve() returned
    call         \* the last method called directly on the object

vars == <<crossword, domains, pc, arcs, ac3_ret, stack, assignment, retval,
          result, call>>

neighbors(var) ==
    {v \in crossword.variables : v # var /\ overlaps(v, var) # None}

\* --------------------------------------------------------- node consistency

\* Variant of remove_mismatched: `<` for `!=`, so only longer words go.
RECURSIVE remove_longer(_, _, _)
remove_longer(var, words, copy) ==
    IF copy = {} THEN words
    ELSE LET test_word == CHOOSE w \in copy : TRUE
         IN  remove_longer(
                 var,
                 IF var.length < Len(test_word) THEN words \ {test_word} ELSE words,
                 copy \ {test_word})

\* Variant of remove_mismatched: the loop ends after its first removal.
RECURSIVE remove_first_mismatched(_, _, _)
remove_first_mismatched(var, words, copy) ==
    IF copy = {} THEN words
    ELSE LET test_word == CHOOSE w \in copy : TRUE
         IN  IF var.length # Len(test_word) THEN words \ {test_word}
             ELSE remove_first_mismatched(var, words, copy \ {test_word})

\* The inner loop of enforce_node_consistency over the copy of one domain.
RECURSIVE remove_mismatched(_, _, _)
remove_mismatched(var, words, copy) ==
    IF copy = {} THEN words
    ELSE LET test_word == CHOOSE w \in copy : TRUE
         IN  remove_mismatched(
                 var,
                 IF var.length # Len(test_word) THEN words \ {test_word} ELSE words,
                 copy \ {test_word})

enforce_node_consistency(doms) ==
    [var \in DOMAIN doms |-> remove_mismatched(var, doms[var], doms[var])]


\* ---------------------------------------------------------- arc consistency

\* The inner loop of compare_domain for one xword.  A yword that is too short
\* or is the xword itself is passed over; xword[x] == yword[y] raises
\* IndexError when x or y is the length of its word.  The ywords are visited
\* in the arbitrary order of a Python set, so a yword that raises may or may
\* not be met before one that matches.
compared(y, xword, yword) == ~(Len(yword) < y \/ xword = yword)

\* Some order of the ywords leaves xword in the set: it is too short (the
\* `continue` skips its removal), or a yword matches it.
keeps(x, y, xword, ywords) ==
    \/ Len(xword) < x
    \/ \E yword \in ywords :
          /\ compared(y, xword, yword)
          /\ Len(xword) > x /\ Len(yword) > y
          /\ xword[x + 1] = yword[y + 1]

\* Some order of the ywords raises IndexError on xword.
raises(x, y, xword, ywords) ==
    /\ Len(xword) >= x
    /\ \E yword \in ywords :
          /\ compared(y, xword, yword)
          /\ Len(xword) = x \/ Len(yword) = y

\* Variant of compare_domain: no `break`, so a later yword that does not
\* match overwrites `consistent` and the xword goes.
compare_domain_no_break(x, y, xwords, ywords) ==
    {xword \in xwords :
        \/ Len(xword) < x
        \/ /\ \E yword \in ywords : compared(y, xword, yword)
           /\ \A yword \in ywords :
                 compared(y, xword, yword) => xword[x + 1] = yword[y + 1]}

\* Variant of compare_domain: no `xword == yword` test, so a word supports
\* itself.
compare_domain_self_support(x, y, xwords, ywords) ==
    {xword \in xwords :
        \/ Len(xword) < x
        \/ \E yword \in ywords :
              /\ Len(yword) > y /\ Len(xword) > x
              /\ xword[x + 1] = yword[y + 1]}

\* The set compare_domain returns when it returns.
compare_domain(x, y, xwords, ywords) ==
    {xword \in xwords : keeps(x, y, xword, ywords)}

\* Some iteration order lets compare_domain return: no xword raises whatever
\* the order (an xword of length x does, once it is compared at all).
compare_domain_returns(x, y, xwords, ywords) ==
    \A xword \in xwords :
       raises(x, y, xword, ywords) => (Len(xword) > x /\ keeps(x, y, xword, ywords))

\* Some iteration order makes compare_domain raise.
compare_domain_raises(x, y, xwords, ywords) ==
    \E xword \in xwords : raises(x, y, xword, ywords)

\* Variant of revise: x and y change places in the call of compare_domain,
\* so the domain of x becomes a selection of the words of y.
revise_swapped(doms, x, y) ==
    LET o == overlaps(x, y)
    IN  IF o = None THEN [revised |-> FALSE, domains |-> doms]
        ELSE LET new_xwords == compare_domain(o[2], o[1], doms[y], doms[x])
                 revised == Cardinality(new_xwords) # Cardinality(doms[x])
             IN  [revised |-> revised,
                  domains |-> IF revised THEN [doms EXCEPT ![x] = new_xwords]
                              ELSE doms]

\* revise(x, y) on the domains doms: the return value and the new domains.
revise(doms, x, y) ==
    LET o == overlaps(x, y)
    IN  IF o = None THEN [revised |-> FALSE, domains |-> doms]
        ELSE LET new_xwords == compare_domain(o[1], o[2], doms[x], doms[y])
                 revised == Cardinality(new_xwords) # Cardinality(doms[x])
             IN  [revised |-> revised,
                  domains |-> IF revised THEN [doms EXCEPT ![x] = new_xwords]
                              ELSE doms]

revise_returns(doms, x, y) ==
    LET o == overlaps(x, y)
    IN  o # None => compare_domain_returns(o[1], o[2], doms[x], doms[y])

revise_raises(doms, x, y) ==
    LET o == overlaps(x, y)
    IN  o # None /\ compare_domain_raises(o[1], o[2], doms[x], doms[y])

\* The queue ac3 starts from when no arcs are given.
all_arcs ==
    UNION {{<<var, v>> : v \in neighbors(var)} : var \in crossword.variables}

\* Variant of requeue: the arcs put back lead away from x.
requeue_reversed(x, y) == {<<x, z>> : z \in neighbors(x) \ {y}}

\* Variant of requeue: nothing is put back on the queue.
requeue_none(x, y) == {}

\* The arcs ac3 adds after revise(x, y) shrank the domain of x.
requeue(x, y) == {<<z, x>> : z \in neighbors(x) \ {y}}

\* `if not arcs:` is true of None and of an empty collection alike.  An
\* explicit collection S is passed as <<S>>.
not_arcs(arg) == arg = None \/ arg[1] = {}

\* The queue ac3(arg) starts its loop with, lines 172-177.
initial_arcs(arg) == IF not_arcs(arg) THEN all_arcs ELSE arg[1]

\* Variant of ac3_after: the arc is read from the queue but stays in it.
ac3_after_keeps_arc(r, queue, arc) ==
    IF r.revised /\ Cardinality(r.domains[arc[1]]) = 0
    THEN [ret |-> "False", domains |-> r.domains, arcs |-> {}]
    ELSE [ret |-> "pending", domains |-> r.domains,
          arcs |-> IF r.revised
                   THEN queue \cup requeue(arc[1], arc[2])
                   ELSE queue]

\* The rest of one iteration of the while loop of ac3 once revise(x, y)
\* returned r: `ret` is "False" when ac3 returns there, "pending" when the
\* loop goes on with the queue `arcs`.
ac3_after(r, queue, arc) ==
    IF r.revised /\ Cardinality(r.domains[arc[1]]) = 0
    THEN [ret |-> "False", domains |-> r.domains, arcs |-> {}]
    ELSE [ret |-> "pending", domains |-> r.domains,
          arcs |-> IF r.revised
                   THEN (queue \ {arc}) \cup requeue(arc[1], arc[2])
                   ELSE queue \ {arc}]

\* One iteration of the while loop of ac3 that pops arc, lines 178-183.
ac3_pop(doms, queue, arc) ==
    CHOOSE n \in {ac3_after(r, queue, arc) :
                     r \in {revise(doms, arc[1], arc[2])}} : TRUE

\* ------------------------------------------------------------------- solve

NoCall == [op |-> "none", args |-> <<>>, ret |-> "none", pre |-> <<>>,
           prev |-> "none"]

\* The object after __init__: every domain is a copy of the word list.
Constructed ==
    /\ crossword \in {[variables |-> V, words |-> W] :
                         V \in Structures, W \in WordLists}
    /\ domains = [var \in crossword.variables |-> crossword.words]
    /\ arcs = {}
    /\ ac3_ret = "pending"
    /\ stack = <<>>
    /\ assignment = <<>>
    /\ retval = None
    /\ result = None
    /\ call = NoCall

Init == Constructed /\ pc = "solve"

\* solve, line 92.
Solve_enforce_node_consistency ==
    /\ pc = "solve"
    /\ domains' = enforce_node_consistency(domains)
    /\ pc' = "ac3"
    /\ UNCHANGED <<crossword, arcs, ac3_ret, stack, assignment, retval, result, call>>

\* The while loop of ac3, lines 178-183, running at `at`; a return of False
\* leaves for `after`.
Ac3_iteration(at, after) ==
    /\ pc = at
    /\ \E arc \in arcs :
         \E n \in {ac3_pop(domains, arcs, arc)} :
            /\ revise_returns(domains, arc[1], arc[2])
            /\ domains' = n.domains
            /\ arcs' = n.arcs
            /\ IF n.ret = "False"
               THEN ac3_ret' = "False" /\ pc' = after
               ELSE UNCHANGED <<ac3_ret, pc>>
    /\ UNCHANGED <<crossword, stack, assignment, retval, result, call>>

\* ac3, line 184: the queue is empty.
Ac3_exit(at, after) ==
    /\ pc = at
    /\ arcs = {}
    /\ ac3_ret' = "True"
    /\ pc' = after
    /\ UNCHANGED <<crossword, domains, arcs, stack, assignment, retval, result, call>>

\* ac3(arcs=None) called by solve, lines 172-177.
Ac3_seed ==
    /\ pc = "ac3"
    /\ arcs' = initial_arcs(None)
    /\ pc' = "ac3_loop"
    /\ UNCHANGED <<crossword, domains, ac3_ret, stack, assignment, retval, result, call>>

\* One iteration of the while loop of ac3, lines 178-183; when ac3 returns,
\* solve goes on to backtrack(dict()) whatever the value.
Ac3_pop == Ac3_iteration("ac3_loop", "backtrack")

\* ac3, line 184.
Ac3_return == Ac3_exit("ac3_loop", "backtrack")

\* ---------------------------------------------------------------- backtrack

\* Variant of assignment_complete: a variable without candidates does not
\* count.
assignment_complete_skips_empty(a) ==
    {v \in crossword.variables : domains[v] # {}} \ DOMAIN a = {}

assignment_complete(a) == crossword.variables \ DOMAIN a = {}

\* Variant of consistent: no test for duplicate words.
consistent_allows_duplicates(a) ==
    \A var \in DOMAIN a :
       /\ Len(a[var]) = var.length
       /\ \A nvar \in DOMAIN a \ {var} :
             LET o == overlaps(nvar, var)
             IN  o # None => /\ Len(a[nvar]) > o[1]
                             /\ a[nvar][o[1] + 1] = a[var][o[2] + 1]

\* Variant of consistent: no test of the lengths of the words.
consistent_ignores_length(a) ==
    IF Cardinality(DOMAIN a) # Cardinality({a[v] : v \in DOMAIN a}) THEN FALSE
    ELSE \A var \in DOMAIN a :
            \A nvar \in DOMAIN a \ {var} :
               LET o == overlaps(nvar, var)
               IN  o # None => /\ Len(a[nvar]) > o[1] /\ Len(a[var]) > o[2]
                               /\ a[nvar][o[1] + 1] = a[var][o[2] + 1]

\* consistent(a) returns True: no test returns False and no nword[o[0]]
\* indexes past the end of nword.
consistent(a) ==
    IF Cardinality(DOMAIN a) # Cardinality({a[v] : v \in DOMAIN a}) THEN FALSE
    ELSE \A var \in DOMAIN a :
            /\ Len(a[var]) = var.length
            /\ \A nvar \in DOMAIN a \ {var} :
                  LET o == overlaps(nvar, var)
                  IN  o # None => /\ Len(a[nvar]) > o[1]
                                  /\ a[nvar][o[1] + 1] = a[var][o[2] + 1]

\* Some order of the items of a makes consistent(a) raise IndexError: a
\* variable whose word has its length comes first, and the word of the next
\* one, not yet tested for its length, ends before the shared cell.
consistent_raises(a) ==
    /\ Cardinality(DOMAIN a) = Cardinality({a[v] : v \in DOMAIN a})
    /\ \E var \in DOMAIN a :
          /\ Len(a[var]) = var.length
          /\ \E nvar \in DOMAIN a \ {var} :
                LET o == overlaps(nvar, var)
                IN  o # None /\ Len(a[nvar]) <= o[1]

\* Variant of ruled_out: the neighbors that are assigned count too.
ruled_out_all_neighbors(var, a, our_word) ==
    LET nb == neighbors(var)
    IN  Cardinality({p \in UNION {{<<nvar, n_word>> : n_word \in domains[nvar]} :
                                     nvar \in nb} :
                        LET o == overlaps(var, p[1])
                        IN  our_word[o[1] + 1] # p[2][o[2] + 1]})

\* ruled_out[our_word] of order_domain_values.
ruled_out(var, a, our_word) ==
    LET nb == neighbors(var) \ DOMAIN a
    IN  Cardinality({p \in UNION {{<<nvar, n_word>> : n_word \in domains[nvar]} :
                                     nvar \in nb} :
                        LET o == overlaps(var, p[1])
                        IN  our_word[o[1] + 1] # p[2][o[2] + 1]})

\* The lists sorted(words, key=...) can return: each word once, in
\* non-decreasing order of the key; words of equal key keep the arbitrary
\* iteration order of the Python set.
sorted_by(words, key) ==
    LET n == Cardinality(words)
    IN  {s \in [1..n -> words] :
            /\ \A k1, k2 \in 1..n : k1 # k2 => s[k1] # s[k2]
            /\ \A k \in 1..(n - 1) : key[s[k]] <= key[s[k + 1]]}

sorted_by_ruled_out(var, a, words) ==
    UNION {sorted_by(words, key) :
              key \in {[word \in words |-> ruled_out(var, a, word)]}}

order_domain_values(var, a) == sorted_by_ruled_out(var, a, domains[var])

\* Variant of select_unassigned_variable: the sort by degree is ascending.
select_unassigned_variable_lowest_degree(a) ==
    LET unassigned == crossword.variables \ DOMAIN a
        num_vals(v) == Cardinality(domains[v])
        deg(v) == Cardinality(neighbors(v))
    IN  {v \in unassigned :
            \A u \in unassigned :
               \/ num_vals(v) < num_vals(u)
               \/ num_vals(v) = num_vals(u) /\ deg(v) <= deg(u)}

\* The variables s[0] can be: fewest values first, then most neighbors.
select_unassigned_variable(a) ==
    LET unassigned == crossword.variables \ DOMAIN a
        num_vals(v) == Cardinality(domains[v])
        deg(v) == Cardinality(neighbors(v))
    IN  {v \in unassigned :
            \A u \in unassigned :
               \/ num_vals(v) < num_vals(u)
               \/ num_vals(v) = num_vals(u) /\ deg(v) >= deg(u)}

\* assignment[var] = value and assignment.pop(var).
bind(a, var, value) ==
    [v \in DOMAIN a \cup {var} |-> IF v = var THEN value ELSE a[v]]

\* Variant of pop: the binding stays.
pop_keeps(a, var) == a

pop(a, var) == [v \in DOMAIN a \ {var} |-> a[v]]

\* Variant of rest: the loop does not move past the value it tried.
rest_keeps_value(untried, value) == untried

\* What the for loop of backtrack still has to try after `value`.
rest(untried, value) == untried \ {value}

\* `if result:` on what a nested call returned: None and {} are false.
truthy(r) == r # None /\ DOMAIN r[1] # {}

\* backtrack, lines 280-281: the assignment is complete.
Backtrack_complete ==
    /\ pc = "backtrack"
    /\ assignment_complete(assignment)
    /\ retval' = <<assignment>>
    /\ pc' = "bt_return"
    /\ UNCHANGED <<crossword, domains, arcs, ac3_ret, stack, assignment, result, call>>

\* Variant of Backtrack_select: the values to try are taken out of the
\* domain of the variable.
Backtrack_select_drains ==
    /\ pc = "backtrack"
    /\ ~assignment_complete(assignment)
    /\ \E var \in select_unassigned_variable(assignment) :
         \E values \in order_domain_values(var, assignment) :
            /\ stack' = Append(stack, [var |-> var, value |-> None,
                                       untried |-> {values[k] : k \in DOMAIN values},
                                       entry |-> assignment])
            /\ domains' = [domains EXCEPT ![var] = {}]
    /\ pc' = "bt_loop"
    /\ UNCHANGED <<crossword, arcs, ac3_ret, assignment, retval, result, call>>

\* backtrack, lines 282-283: choose the variable and start the for loop over
\* its ordered values.  A frame keeps the values of the list that are still
\* to come; which of several values of equal key comes first is settled when
\* the loop takes it.  `entry` is the assignment the call was entered with.
Backtrack_select ==
    /\ pc = "backtrack"
    /\ ~assignment_complete(assignment)
    /\ \E var \in select_unassigned_variable(assignment) :
         \E values \in order_domain_values(var, assignment) :
            stack' = Append(stack, [var |-> var, value |-> None,
                                    untried |-> {values[k] : k \in DOMAIN values},
                                    entry |-> assignment])
    /\ pc' = "bt_loop"
    /\ UNCHANGED <<crossword, domains, arcs, ac3_ret, assignment, retval, result, call>>

\* backtrack, lines 285-288 and 293: bind the next value; recurse if the
\* assignment is consistent, else unbind and go on.
Backtrack_try ==
    /\ pc = "bt_loop"
    /\ stack[Len(stack)].untried # {}
    /\ LET frame == stack[Len(stack)]
       IN  \E values \in sorted_by_ruled_out(frame.var, assignment, frame.untried) :
              LET value == Head(values)
                  a == bind(assignment, frame.var, value)
              IN  IF consistent(a)
                  THEN /\ assignment' = a
                       /\ stack' = [stack EXCEPT ![Len(stack)] =
                                       [frame EXCEPT !.value = value,
                                                     !.untried = rest(frame.untried, value)]]
                       /\ pc' = "backtrack"
                  ELSE /\ assignment' = pop(a, frame.var)
                       /\ stack' = [stack EXCEPT ![Len(stack)] =
                                       [frame EXCEPT !.value = None,
                                                     !.untried = rest(frame.untried, value)]]
                       /\ UNCHANGED pc
    /\ UNCHANGED <<crossword, domains, arcs, ac3_ret, retval, result, call>>

\* backtrack, line 295: every value was tried.
Backtrack_exhausted ==
    /\ pc = "bt_loop"
    /\ stack[Len(stack)].untried = {}
    /\ stack' = SubSeq(stack, 1, Len(stack) - 1)
    /\ retval' = None
    /\ pc' = "bt_return"
    /\ UNCHANGED <<crossword, domains, arcs, ac3_ret, assignment, result, call>>

\* backtrack, lines 288-293: the nested call returned.
Backtrack_returned ==
    /\ pc = "bt_return"
    /\ stack # <<>>
    /\ LET frame == stack[Len(stack)]
       IN  IF truthy(retval)
           THEN /\ stack' = SubSeq(stack, 1, Len(stack) - 1)
                /\ UNCHANGED <<assignment, pc>>
           ELSE /\ assignment' = pop(assignment, frame.var)
                /\ stack' = [stack EXCEPT ![Len(stack)].value = None]
                /\ pc' = "bt_loop"
    /\ UNCHANGED <<crossword, domains, arcs, ac3_ret, retval, result, call>>

\* solve, line 94: the outermost backtrack returned.
Solve_return ==
    /\ pc = "bt_return"
    /\ stack = <<>>
    /\ result' = retval
    /\ pc' = "done"
    /\ UNCHANGED <<crossword, domains, arcs, ac3_ret, stack, assignment, retval, call>>

Next ==
    \/ Solve_enforce_node_consistency
    \/ Ac3_seed
    \/ Ac3_pop
    \/ Ac3_return
    \/ Backtrack_complete
    \/ Backtrack_select
    \/ Backtrack_try
    \/ Backtrack_exhausted
    \/ Backtrack_returned
    \/ Solve_return

Spec == Init /\ [][Next]_vars

\* ------------------------------------- the methods called one at a time

\* A fresh object whose consistency methods are called in any order.
ApiInit == Constructed /\ pc = "api"

Called(op, args, ret) ==
    [op |-> op, args |-> args, ret |-> ret, pre |-> domains, prev |-> call.op]

Api_enforce_node_consistency ==
    /\ pc = "api"
    /\ domains' = enforce_node_consistency(domains)
    /\ call' = Called("enforce_node_consistency", <<>>, "None")
    /\ UNCHANGED <<crossword, pc, arcs, ac3_ret, stack, assignment, retval, result>>

Api_revise ==
    /\ pc = "api"
    /\ \E x, y \in crossword.variables :
         /\ x # y
         /\ revise_returns(domains, x, y)
         /\ LET r == revise(domains, x, y)
            IN  /\ domains' = r.domains
                /\ call' = Called("revise", <<x, y>>,
                                  IF r.revised THEN "True" ELSE "False")
    /\ UNCHANGED <<crossword, pc, arcs, ac3_ret, stack, assignment, retval, result>>

\* revise on domains that are not node consistent can index past the end of
\* a word: the IndexError ends the program with the domains as they were.
Api_revise_raises ==
    /\ pc = "api"
    /\ \E x, y \in crossword.variables :
         /\ x # y
         /\ revise_raises(domains, x, y)
         /\ call' = Called("revise", <<x, y>>, "IndexError")
    /\ pc' = "raised"
    /\ UNCHANGED <<crossword, domains, arcs, ac3_ret, stack, assignment, retval, result>>

ApiNext ==
    \/ Api_enforce_node_consistency
    \/ Api_revise
    \/ Api_revise_raises

ApiSpec == ApiInit /\ [][ApiNext]_vars

\* ------------------------------------------- ac3 called with its argument

\* The arguments ac3 is called with: None, or a collection of arcs between
\* overlapping variables.
ArcArgs == {None} \cup {<<S>> : S \in SUBSET all_arcs}

\* A fresh object made node consistent, then one call of ac3(arg).
Ac3Init == Constructed /\ pc = "ac3_api"

Ac3Api_enforce_node_consistency ==
    /\ pc = "ac3_api"
    /\ domains' = enforce_node_consistency(domains)
    /\ call' = Called("enforce_node_consistency", <<>>, "None")
    /\ pc' = "ac3_call"
    /\ UNCHANGED <<crossword, arcs, ac3_ret, stack, assignment, retval, result>>

\* ac3(arg), lines 172-177; the call record keeps the argument and the queue
\* the loop starts with.
Ac3Api_call ==
    /\ pc = "ac3_call"
    /\ \E arg \in ArcArgs :
         /\ arcs' = initial_arcs(arg)
         /\ call' = Called("ac3", <<arg, initial_arcs(arg)>>, "pending")
    /\ pc' = "ac3_api_loop"
    /\ UNCHANGED <<crossword, domains, ac3_ret, stack, assignment, retval, result>>

Ac3Api_pop == Ac3_iteration("ac3_api_loop", "ac3_returned")

Ac3Api_return == Ac3_exit("ac3_api_loop", "ac3_returned")

Ac3Next ==
    \/ Ac3Api_enforce_node_consistency
    \/ Ac3Api_call
    \/ Ac3Api_pop
    \/ Ac3Api_return

Ac3Spec == Ac3Init /\ [][Ac3Next]_vars

\* ------------------------------------ the methods the search is built from

\* The dicts over the variables with values in the set words.
Assignments(words) ==
    UNION {[D -> words] : D \in SUBSET crossword.variables}

\* The dicts whose words are taken from the domains of their variables.
AssignmentsFromDomains ==
    {a \in Assignments(crossword.words) : \A v \in DOMAIN a : a[v] \in domains[v]}

\* A fresh object: consistent is called on any dict over the word list; or
\* the domains are made node consistent and arc consistent as solve does,
\* and select_unassigned_variable or order_domain_values is called.
QueryInit == Constructed /\ pc = "query"

Query_consistent ==
    /\ pc = "query"
    /\ \E a \in Assignments(crossword.words) :
         call' = Called("consistent", <<a>>,
                        IF consistent(a) THEN "True" ELSE "False")
    /\ pc' = "queried"
    /\ UNCHANGED <<crossword, domains, arcs, ac3_ret, stack, assignment, retval, result>>

Query_consistent_raises ==
    /\ pc = "query"
    /\ \E a \in Assignments(crossword.words) :
         /\ consistent_raises(a)
         /\ call' = Called("consistent", <<a>>, "IndexError")
    /\ pc' = "raised"
    /\ UNCHANGED <<crossword, domains, arcs, ac3_ret, stack, assignment, retval, result>>

Query_enforce_node_consistency ==
    /\ pc = "query"
    /\ domains' = enforce_node_consistency(domains)
    /\ arcs' = initial_arcs(None)
    /\ pc' = "query_ac3_loop"
    /\ UNCHANGED <<crossword, ac3_ret, stack, assignment, retval, result, call>>

Query_ac3_pop == Ac3_iteration("query_ac3_loop", "query_search")

Query_ac3_return == Ac3_exit("query_ac3_loop", "query_search")

Query_select_unassigned_variable ==
    /\ pc = "query_search"
    /\ \E a \in AssignmentsFromDomains :
         /\ ~assignment_complete(a)
         /\ \E var \in select_unassigned_variable(a) :
               call' = Called("select_unassigned_variable", <<a>>, var)
    /\ pc' = "queried"
    /\ UNCHANGED <<crossword, domains, arcs, ac3_ret, stack, assignment, retval, result>>

Query_order_domain_values ==
    /\ pc = "query_search"
    /\ \E a \in AssignmentsFromDomains :
         \E var \in crossword.variables \ DOMAIN a :
            \E values \in order_domain_values(var, a) :
               call' = Called("order_domain_values", <<var, a>>, values)
    /\ pc' = "queried"
    /\ UNCHANGED <<crossword, domains, arcs, ac3_ret, stack, assignment, retval, result>>

QueryNext ==
    \/ Query_consistent
    \/ Query_consistent_raises
    \/ Query_enforce_node_consistency
    \/ Query_ac3_pop
    \/ Query_ac3_return
    \/ Query_select_unassigned_variable
    \/ Query_order_domain_values

QuerySpec == QueryInit /\ [][QueryNext]_vars

\* A run of solve() goes on until solve returns.
FairSpec == Spec /\ WF_vars(Next)

\* ------------------------------------------------------------- properties

\* Every word of every domain has the length of its variable.
NodeConsistent(doms) ==
    \A v \in DOMAIN doms : \A w \in doms[v] : Len(w) = v.length

\* The words of the word list that fit the slot v.
Fitting(v) == {w \in crossword.words : Len(w) = v.length}

\* Some slot has no word of its length in the word list: node consistency
\* leaves its domain empty.
NodeEmptied == pc # "solve" /\ \E v \in crossword.variables : Fitting(v) = {}

\* a binds every variable, to pairwise distinct words of the variables'
\* lengths that agree on every shared cell.
CompleteConsistent(a) ==
    /\ DOMAIN a = crossword.variables
    /\ \A v1, v2 \in crossword.variables : v1 # v2 => a[v1] # a[v2]
    /\ \A v \in crossword.variables : Len(a[v]) = v.length
    /\ \A v1, v2 \in crossword.variables :
          (v1 # v2 /\ overlaps(v1, v2) # None) =>
             a[v1][overlaps(v1, v2)[1] + 1] = a[v2][overlaps(v1, v2)[2] + 1]

\* A complete consistent assignment can be drawn from the domains doms.
SolutionIn(doms) ==
    \E a \in [crossword.variables -> crossword.words] :
       /\ \A v \in crossword.variables : a[v] \in doms[v]
       /\ CompleteConsistent(a)

\* w in the domain of x has a different word in the domain of y that agrees
\* with it at the offsets o of the shared cell.
Supported(doms, y, o, w) ==
    \E v \in doms[y] : v # w /\ w[o[1] + 1] = v[o[2] + 1]

\* ac3 pruned a domain that node consistency had left non-empty.
Ac3Pruned ==
    \E v \in crossword.variables : domains[v] # {} /\ domains[v] # Fitting(v)

\* In a run of solve() the domains are node consistent before ac3 looks at
\* them, so no revise call of ac3 can raise IndexError.
SolveNeverRaises ==
    pc = "ac3_loop" =>
       /\ NodeConsistent(domains)
       /\ \A arc \in arcs : ~revise_raises(domains, arc[1], arc[2])

\* C1: whenever solve() returns an assignment, it binds every variable, the
\* bound words are pairwise distinct, each has its variable's length, and
\* on every overlap (i, j) the i-th character of the first word equals the
\* j-th character of the second.
C1_SolveSound ==
    (pc = "done" /\ result # None) => CompleteConsistent(result[1])

C1_Witness ==
    /\ pc = "done"
    /\ result # None
    /\ Cardinality(crossword.variables) = 3
    /\ CompleteConsistent(result[1])

\* C2: if a complete consistent assignment can be drawn from the domains
\* (the word list), solve() returns an assignment and not None, whatever
\* tie-breaks and arc pop order are taken.
C2_SolveComplete ==
    (pc = "done" /\ SolutionIn([v \in crossword.variables |-> crossword.words]))
        => result # None

C2_Witness ==
    /\ pc = "done"
    /\ result # None
    /\ Cardinality(crossword.variables) >= 2
    /\ Ac3Pruned

\* C3: in a run in which ac3 returns False, or node consistency has emptied
\* a domain, backtrack is never invoked.
C3_SearchSkipped ==
    (ac3_ret = "False" \/ NodeEmptied) => pc \notin {"backtrack", "bt_loop", "bt_return"}

\* C4: if a domain is empty after node consistency or becomes empty during
\* ac3, solve() returns None.
C4_EmptyDomainNoSolution ==
    (pc = "done" /\ (NodeEmptied \/ ac3_ret = "False")) => result = None

C4_Witness ==
    /\ pc = "done"
    /\ ac3_ret = "False"
    /\ ~NodeEmptied
    /\ result = None

\* C5: after enforce_node_consistency and an ac3() that returned True, for
\* every ordered pair (x, y) with an overlap (a, b) every word w of
\* domain(x) has a word v # w in domain(y) with w[a] = v[b], whatever the
\* order in which the arcs were popped.
C5_ArcConsistent ==
    ac3_ret = "True" =>
       \A x, y \in crossword.variables :
          (x # y /\ overlaps(x, y) # None) =>
             \A w \in domains[x] : Supported(domains, y, overlaps(x, y), w)

C5_Witness ==
    /\ ac3_ret = "True"
    /\ Cardinality(crossword.variables) = 3
    /\ Ac3Pruned
    /\ \A v \in crossword.variables : domains[v] # {}

\* C6: ac3 returns True only if no domain is empty when it returns, and
\* returns False if some domain is empty then, a domain emptied by node
\* consistency included.
C6_Ac3ReportsEmptyDomain ==
    ac3_ret # "pending" =>
       (ac3_ret = "True" <=> \A v \in crossword.variables : domains[v] # {})

\* C7: after enforce_node_consistency the domain of every variable v is
\* exactly the set of the words of its prior domain whose length is
\* v.length.
C7_NodeConsistencyExact ==
    call.op = "enforce_node_consistency" =>
       \A v \in crossword.variables :
          domains[v] = {w \in call.pre[v] : Len(w) = v.length}

C7_Witness ==
    /\ call.op = "enforce_node_consistency"
    /\ \E v \in crossword.variables : domains[v] # {} /\ domains[v] # call.pre[v]
    /\ \E v1, v2 \in crossword.variables : call.pre[v1] # call.pre[v2]

\* C8: if no complete consistent assignment exists over the domains,
\* solve() terminates and returns None: the search does not go on for ever.
C8_SearchTerminates ==
    (~SolutionIn(domains)) ~> (pc = "done" /\ result = None)

C8_Witness ==
    /\ pc = "done"
    /\ result = None
    /\ Cardinality(crossword.variables) >= 2
    /\ \A v \in crossword.variables : domains[v] # {}

\* C9: enforce_node_consistency is idempotent: applied a second time in a
\* row it leaves every domain as the first application left it.
C9_NodeConsistencyIdempotent ==
    (call.op = "enforce_node_consistency" /\ call.prev = "enforce_node_consistency")
        => domains = call.pre

C9_Witness ==
    /\ call.op = "enforce_node_consistency"
    /\ call.prev = "enforce_node_consistency"
    /\ \E v \in crossword.variables :
          domains[v] # {} /\ domains[v] # crossword.words

\* C10: on node-consistent domains revise(x, y) returns; without an overlap
\* it returns False and changes no domain; with the overlap (a, b) it
\* leaves in domain(x) exactly the prior words w that have a v # w in
\* domain(y) with w[a] = v[b], changes no other domain, and returns True
\* iff a word was removed.
C10_ReviseExact ==
    (call.op = "revise" /\ NodeConsistent(call.pre)) =>
       LET x == call.args[1]
           y == call.args[2]
           o == overlaps(x, y)
       IN  /\ call.ret \in {"True", "False"}
           /\ \A z \in crossword.variables \ {x} : domains[z] = call.pre[z]
           /\ IF o = None
              THEN call.ret = "False" /\ domains[x] = call.pre[x]
              ELSE /\ domains[x] = {w \in call.pre[x] : Supported(call.pre, y, o, w)}
                   /\ call.ret = "True" <=> domains[x] # call.pre[x]

C10_Witness ==
    /\ call.op = "revise"
    /\ NodeConsistent(call.pre)
    /\ call.ret = "True"
    /\ domains[call.args[1]] # {}
    /\ domains[call.args[1]] # call.pre[call.args[1]]


\* ac3 run from the queue `queue` popping, each time, one fixed arc of the
\* queue: the return value and the domains it leaves.
RECURSIVE ac3_in_fixed_order(_, _)
ac3_in_fixed_order(doms, queue) ==
    IF queue = {} THEN [ret |-> "True", domains |-> doms]
    ELSE LET n == ac3_pop(doms, queue, CHOOSE arc \in queue : TRUE)
         IN  IF n.ret = "False" THEN [ret |-> "False", domains |-> n.domains]
             ELSE ac3_in_fixed_order(n.domains, n.arcs)

Ac3Returned == pc = "ac3_returned" /\ call.op = "ac3"

\* C11: whatever the order ac3 pops its arcs in, it returns what the run in
\* one fixed order returns from the same domains and queue, and when that is
\* True it leaves the same domains: the result does not depend on the order.
C11_PopOrderIrrelevant ==
    Ac3Returned =>
       LET fixed == ac3_in_fixed_order(call.pre, call.args[2])
       IN  /\ ac3_ret = fixed.ret
           /\ ac3_ret = "True" => domains = fixed.domains

\* C11 for the call the program makes, ac3() seeded with every arc.
C11_PopOrderIrrelevantFromAllArcs ==
    (Ac3Returned /\ call.args[2] = all_arcs) => C11_PopOrderIrrelevant

C11_Witness ==
    /\ Ac3Returned
    /\ call.args[2] = all_arcs
    /\ Cardinality(all_arcs) >= 4
    /\ ac3_ret = "True"
    /\ Cardinality({v \in crossword.variables : domains[v] # call.pre[v]}) >= 2

\* C12: ac3 terminates: once its loop has started it returns True (the queue
\* ran empty) or False (a domain was emptied), and an iteration adds arcs to
\* the queue only when it strictly shrank a domain.
C12_Ac3Terminates ==
    /\ (pc = "ac3_loop") ~> (ac3_ret \in {"True", "False"})
    /\ [][(pc = "ac3_loop" /\ ~(arcs' \subseteq arcs)) =>
             \E x \in crossword.variables :
                domains'[x] \subseteq domains[x] /\ domains'[x] # domains[x]]_vars

\* ac3 returned after it shrank the domain of a variable with two neighbors,
\* which put an arc back on the queue.
C12_Witness ==
    /\ pc = "backtrack"
    /\ stack = <<>>
    /\ ac3_ret \in {"True", "False"}
    /\ \E v \in crossword.variables :
          Cardinality(neighbors(v)) >= 2 /\ domains[v] # Fitting(v)

\* C13: an explicit collection of arcs, empty or not, is the queue ac3
\* starts with, and ac3 of an explicit empty collection changes no domain
\* and returns True; without a collection the queue is every arc.
C13_ExplicitArcsAreTheQueue ==
    call.op = "ac3" =>
       /\ call.args[1] = None => call.args[2] = all_arcs
       /\ call.args[1] # None => call.args[2] = call.args[1][1]
       /\ (call.args[1] = <<{}>> /\ pc = "ac3_returned") =>
              (domains = call.pre /\ ac3_ret = "True")


\* (a), (b), (c) of a partial assignment: no word twice, every word of the
\* length of its variable, overlapping variables agree on the shared cell.
AllDifferent(a) == \A v1, v2 \in DOMAIN a : v1 # v2 => a[v1] # a[v2]

LengthsFit(a) == \A v \in DOMAIN a : Len(a[v]) = v.length

OverlapsAgree(a) ==
    \A v1, v2 \in DOMAIN a :
       (v1 # v2 /\ overlaps(v1, v2) # None) =>
          a[v1][overlaps(v1, v2)[1] + 1] = a[v2][overlaps(v1, v2)[2] + 1]

InSearch == pc \in {"backtrack", "bt_loop", "bt_return"}

\* C14: ac3 loses no solution: every complete consistent assignment of words
\* of the word list has, at every moment of solve, each of its words in the
\* domain of its variable.
C14_NoSolutionLost ==
    \A a \in [crossword.variables -> crossword.words] :
       CompleteConsistent(a) => \A v \in crossword.variables : a[v] \in domains[v]

\* ac3 returned, a solution exists, and ac3 removed a word that agrees with
\* itself on the shared cell (only the word itself could have supported it).
C14_Witness ==
    /\ pc = "backtrack"
    /\ ac3_ret = "True"
    /\ SolutionIn(domains)
    /\ \E x, y \in crossword.variables :
          /\ x # y /\ overlaps(x, y) # None
          /\ \E w \in (Fitting(x) \cap Fitting(y)) \ domains[x] :
                w[overlaps(x, y)[1] + 1] = w[overlaps(x, y)[2] + 1]

\* C15: no step of solve adds a word to a domain, and every domain is a
\* subset of the word list.
C15_DomainsNeverGrow ==
    /\ [][\A v \in crossword.variables : domains'[v] \subseteq domains[v]]_vars
    /\ [](\A v \in crossword.variables : domains[v] \subseteq crossword.words)

\* solve returned after node consistency and ac3 each removed a word from
\* the same domain.
C15_Witness ==
    /\ pc = "done"
    /\ \E v \in crossword.variables :
          /\ Fitting(v) # crossword.words
          /\ domains[v] # Fitting(v)

\* C16: no step of the search changes a domain: from the first call of
\* backtrack to the return of solve the domains stay what ac3 left.
C16_SearchKeepsDomains == [][InSearch => domains' = domains]_vars

\* A nested call of backtrack failed after the search had bound a variable.
C16_Witness ==
    /\ pc = "bt_return"
    /\ retval = None
    /\ Len(stack) >= 1
    /\ \E v \in crossword.variables : Cardinality(domains[v]) >= 2

\* C17: a call of backtrack that returns None leaves the assignment it was
\* entered with, and every call of backtrack is entered with a consistent
\* assignment that binds one variable for each call that is under way.
C17_FailureUndoesBindings ==
    [][/\ (pc = "bt_loop" /\ pc' = "bt_return") =>
             (retval' = None /\ assignment' = stack[Len(stack)].entry)
       /\ (InSearch /\ retval' = None /\ pc' = "bt_return") => pc = "bt_loop"
       /\ pc' = "backtrack" =>
             /\ DOMAIN assignment' \subseteq crossword.variables
             /\ Cardinality(DOMAIN assignment') = Len(stack')
             /\ AllDifferent(assignment')
             /\ LengthsFit(assignment')
             /\ OverlapsAgree(assignment')]_vars

\* In a grid of three slots a nested call returned None to a caller whose
\* binding is still in place.
C17_Witness ==
    /\ pc = "bt_return"
    /\ retval = None
    /\ Len(stack) >= 1
    /\ Cardinality(DOMAIN assignment) = Len(stack)
    /\ Cardinality(crossword.variables) >= 3


\* C18: consistent(a) returns True exactly when a has (a) no word twice,
\* (b) every word of the length of its variable and (c) agreement on every
\* shared cell of two of its variables, for dicts that bind some or all
\* variables to any words of the word list.
C18_ConsistentExact ==
    call.op = "consistent" =>
       LET a == call.args[1]
       IN  call.ret = "True" <=>
              (AllDifferent(a) /\ LengthsFit(a) /\ OverlapsAgree(a))

\* consistent returned True on a dict that binds two overlapping variables
\* and leaves a third unbound.
C18_Witness ==
    /\ call.op = "consistent"
    /\ call.ret = "True"
    /\ DOMAIN call.args[1] # crossword.variables
    /\ \E v1, v2 \in DOMAIN call.args[1] : v1 # v2 /\ overlaps(v1, v2) # None

\* C19: select_unassigned_variable returns a variable outside the
\* assignment with the fewest values among the unassigned variables and,
\* among those with that few values, the most neighbors.
C19_SelectMrvThenDegree ==
    call.op = "select_unassigned_variable" =>
       LET a == call.args[1]
           var == call.ret
           unassigned == crossword.variables \ DOMAIN a
           fewest == {u \in unassigned :
                        Cardinality(domains[u]) = Cardinality(domains[var])}
       IN  /\ var \in unassigned
           /\ \A u \in unassigned :
                 Cardinality(domains[var]) <= Cardinality(domains[u])
           /\ \A u \in fewest :
                 Cardinality(neighbors(var)) >= Cardinality(neighbors(u))

\* The choice fell on the variable of most neighbors among several of equally
\* few values, while a variable of more values was left.
C19_Witness ==
    /\ call.op = "select_unassigned_variable"
    /\ \E u \in crossword.variables \ DOMAIN call.args[1] :
          /\ Cardinality(domains[u]) = Cardinality(domains[call.ret])
          /\ Cardinality(neighbors(u)) < Cardinality(neighbors(call.ret))
    /\ \E u \in crossword.variables \ DOMAIN call.args[1] :
          Cardinality(domains[u]) > Cardinality(domains[call.ret])

\* The number of words v in the domains of the variables of the set nb
\* that differ from word at the cell shared with var.
RECURSIVE ConflictCount(_, _, _)
ConflictCount(var, nb, word) ==
    IF nb = {} THEN 0
    ELSE LET n == CHOOSE n \in nb : TRUE
             o == overlaps(var, n)
         IN  Cardinality({v \in domains[n] : word[o[1] + 1] # v[o[2] + 1]})
             + ConflictCount(var, nb \ {n}, word)

\* C20: order_domain_values(var, a) returns each word of the domain of var
\* once, in non-decreasing order of the number of words of the unassigned
\* neighbors that differ from it at the shared cell; assigned neighbors do
\* not count.
C20_OrderByConflicts ==
    call.op = "order_domain_values" =>
       LET var == call.args[1]
           a == call.args[2]
           values == call.ret
           n == Len(values)
           nb == neighbors(var) \ DOMAIN a
       IN  /\ n = Cardinality(domains[var])
           /\ {values[k] : k \in 1..n} = domains[var]
           /\ \A k \in 1..(n - 1) :
                 ConflictCount(var, nb, values[k])
                    <= ConflictCount(var, nb, values[k + 1])

\* The list puts a word of fewer conflicts before one of more, and could
\* have put them the other way round had the assigned neighbors counted.
C20_Witness ==
    /\ call.op = "order_domain_values"
    /\ LET var == call.args[1]
           values == call.ret
           nb == neighbors(var) \ DOMAIN call.args[2]
       IN  \E k, l \in 1..Len(values) :
              /\ k < l
              /\ ConflictCount(var, nb, values[k])
                    < ConflictCount(var, nb, values[l])
              /\ ConflictCount(var, neighbors(var), values[k])
                    >= ConflictCount(var, neighbors(var), values[l])

=============================================================================
